---- MODULE Spec2Model ----
(***************************************************************************)
(* Model of nif.py: the class Nif (Portuguese fiscal identification        *)
(* number).  Python lists are objects that several names can refer to, so  *)
(* the model keeps the contents of every list object the class reaches:    *)
(* the entries of Nif._COMBINATIONS, the class-level list Nif._nif, the    *)
(* list each instance owns, and the lists of each instance's _balanced.    *)
(* Python indices are 0-based; sequences here are 1-based.                 *)
(***************************************************************************)
EXTENDS Integers, Sequences, FiniteSets, TLC

(* ---------------------------------------------------------------------- *)
(* Bounds of the model                                                     *)
(* ---------------------------------------------------------------------- *)
NumInst == 2        \* instances that may be constructed
MaxOps == 3         \* operations along one behaviour
MaxCopyPick == 1    \* random pick limited to the first copies of a 1-digit prefix
MaxPadDigit == 1    \* random padding digits limited to 0..MaxPadDigit (main spec)
MaxNonZero == 2     \* bases of the checksum spec have at most this many non-zero digits
MaxCalls == 2       \* calls of _eval_sum on one base in the checksum spec
MaxPadOps == 2      \* operations along one behaviour of the padding spec

Inst == 1..NumInst

(* ---------------------------------------------------------------------- *)
(* Program constants                                                       *)
(* ---------------------------------------------------------------------- *)
BASE_LENGTH == 8
FAIR_COPIES == 10
RAND_PAD == 9
WEIGHT_TOP == 9
MODULUS == 11

RAW_COMBINATIONS ==
    << <<1>>, <<2>>, <<5>>, <<6>>, <<7,0>>, <<7,1>>, <<7,7>>, <<7,9>>,
       <<8>>, <<9,0>>, <<9,1>>, <<9,8>>, <<9,9>> >>

VARIABLES
    COMBINATIONS,   \* contents of the list objects of Nif._COMBINATIONS
    cls_nif,        \* contents of the class attribute list Nif._nif
    alive,          \* alive[i]: instance i has been constructed
    ref,            \* ref[i]: "class" when self._nif is the class list, else "own"
    own,            \* own[i]: contents of the list object instance i owns
    balanced,       \* balanced[i]: self._balanced, <<>> while the attribute is absent
    nops,           \* operations performed so far
    last,           \* the last operation: name, instance, arguments, outcome
    base,           \* checksum spec: the 8-digit argument
    result          \* checksum spec: <<>> or <<value returned by _eval_sum>>

vars == <<COMBINATIONS, cls_nif, alive, ref, own, balanced, nops, last, base, result>>

Min(a, b) == IF a < b THEN a ELSE b
Max(a, b) == IF a > b THEN a ELSE b

(* random.randrange(n): the values a draw can return *)
rand(n) == 0..(n - 1)

(* ---------------------------------------------------------------------- *)
(* Python list operations                                                  *)
(* ---------------------------------------------------------------------- *)
(* l[start:stop] = items; start and stop are <<>> for None or <<n>> *)
SliceBound(x, n, default) ==
    IF x = <<>> THEN default
    ELSE IF x[1] < 0 THEN Max(x[1] + n, 0) ELSE Min(x[1], n)

ListSetSlice(l, start, stop, items) ==
    LET n == Len(l)
        lo == SliceBound(start, n, 0)
        hi == Max(SliceBound(stop, n, n), lo)
    IN SubSeq(l, 1, lo) \o items \o SubSeq(l, hi + 1, n)

(* l[:n] *)
ListTake(l, n) == SubSeq(l, 1, Min(n, Len(l)))

(* l[index] = item is legal for -len <= index < len *)
ListIndexOk(l, index) == -Len(l) <= index /\ index < Len(l)

ListSetItem(l, index, item) ==
    LET pos == IF index < 0 THEN index + Len(l) ELSE index
    IN [l EXCEPT ![pos + 1] = item]

(* ---------------------------------------------------------------------- *)
(* str() of digits, int() of characters, str.startswith                    *)
(* ---------------------------------------------------------------------- *)
DigitChar == <<"0", "1", "2", "3", "4", "5", "6", "7", "8", "9">>

RECURSIVE StrOfInt(_)
StrOfInt(n) ==
    IF n < 10 THEN <<DigitChar[n + 1]>>
    ELSE StrOfInt(n \div 10) \o <<DigitChar[(n % 10) + 1]>>

IntOfChar(c) == CHOOSE d \in 0..9 : DigitChar[d + 1] = c

RECURSIVE JoinStr(_)
JoinStr(l) == IF l = <<>> THEN <<>> ELSE StrOfInt(Head(l)) \o JoinStr(Tail(l))

StartsWith(s, p) == Len(p) <= Len(s) /\ SubSeq(s, 1, Len(p)) = p

(* list(map(int, list(num))) *)
DigitsOfStr(num) == [k \in 1..Len(num) |-> IntOfChar(num[k])]

(* ---------------------------------------------------------------------- *)
(* Checksum                                                                *)
(* ---------------------------------------------------------------------- *)
RECURSIVE FoldRuler(_, _, _)
FoldRuler(acc, l, idx) ==
    IF l = <<>> THEN acc
    ELSE FoldRuler(acc + ((WEIGHT_TOP - idx) * Head(l)), Tail(l), idx + 1)

(* variant of _eval_sum: the threshold of the zero case is 1 instead of 2 *)
_eval_sum_lt1(elements) ==
    LET sum == FoldRuler(0, ListTake(elements, BASE_LENGTH), 0) % MODULUS
    IN IF sum < 1 THEN 0 ELSE MODULUS - sum

_eval_sum(elements) ==
    LET sum == FoldRuler(0, ListTake(elements, BASE_LENGTH), 0) % MODULUS
    IN IF sum < 2 THEN 0 ELSE MODULUS - sum

(* ---------------------------------------------------------------------- *)
(* Instance state                                                          *)
(* ---------------------------------------------------------------------- *)
(* the list self._nif refers to *)
Digits(i) == IF ref[i] = "class" THEN cls_nif ELSE own[i]

eval_sum(i) == _eval_sum(ListTake(Digits(i), BASE_LENGTH))

(* self._nif[8:] = [value] *)
SumDigitSet(l, value) == ListSetSlice(l, <<BASE_LENGTH>>, <<>>, <<value>>)

(* the list after fix_sum *)
FixSumList(l) == SumDigitSet(l, _eval_sum(ListTake(l, BASE_LENGTH)))

(* ---------------------------------------------------------------------- *)
(* Fairness expansion.  A balanced entry is a list object: alias = j > 0   *)
(* when it IS the list object COMBINATIONS[j] (gen returns [c]), alias = 0 *)
(* when it is a fresh list [c[0]] with contents val.                       *)
(* ---------------------------------------------------------------------- *)
gen(c, j) ==
    IF Len(c) = 1
    THEN [n \in 1..FAIR_COPIES |-> [alias |-> 0, val |-> <<c[1]>>]]
    ELSE << [alias |-> j, val |-> <<>>] >>

RECURSIVE norm(_, _)
norm(C, j) == IF j > Len(C) THEN <<>> ELSE gen(C[j], j) \o norm(C, j + 1)

_fair_combinations(C) == norm(C, 1)

(* contents of the list object a balanced entry refers to *)
Deref(C, e) == IF e.alias > 0 THEN C[e.alias] ELSE e.val

(* ---------------------------------------------------------------------- *)
(* Bounded random inputs                                                   *)
(* ---------------------------------------------------------------------- *)
(* values of rand(len(comb)) the model draws: every aliased entry and the *)
(* first MaxCopyPick of the FAIR_COPIES copies of each 1-digit prefix;    *)
(* run counts the fresh entries since the last aliased one                *)
RECURSIVE PickFrom(_, _, _)
PickFrom(bal, k, run) ==
    IF k > Len(bal) THEN {}
    ELSE IF bal[k].alias > 0 THEN {k - 1} \cup PickFrom(bal, k + 1, 0)
    ELSE (IF run % FAIR_COPIES < MaxCopyPick THEN {k - 1} ELSE {})
            \cup PickFrom(bal, k + 1, run + 1)

PickSet(bal) == PickFrom(bal, 1, 0) \cap rand(Len(bal))

PadDigits == {d \in rand(RAND_PAD) : d <= MaxPadDigit}

(* padding sequences of length n: one digit repeated, or one position differing *)
ConstPads(n, D) == {[p \in 1..n |-> d] : d \in D}
MixedPads(n, D) ==
    {[p \in 1..n |-> IF p = q THEN d ELSE e] : q \in 1..Max(n, 1), d \in D, e \in D}
Pads(n, D, mixed) == IF mixed THEN MixedPads(n, D) ELSE ConstPads(n, D)

Str(ds) == [k \in 1..Len(ds) |-> DigitChar[ds[k] + 1]]

StrArgs ==
    { Str(<<>>), Str(<<1,2,3,4,5,6,7>>), Str(<<1,2,3,4,5,6,7,8>>),
      Str(<<1,2,3,4,5,6,7,8,9>>), Str(<<9,9,9,9,9,9,9,9,9>>),
      Str(<<7,0,1,0,0,0,0,0,7>>), Str(<<1,2,3,4,5,6,7,8,9,0>>) }

IndexInputs == {-10, -9, -8, 0, 7, 8, 9}
StartInputs == {-9, -8, -7, 0, 7, 8}
StopInputs(start) == {<<>>, <<start + 3>>}
ItemInputs == {5}
ItemsInputs == {<<>>, <<5, 5, 5>>}
SumDigitInputs == {3}

(* ---------------------------------------------------------------------- *)
(* History record of the last operation: op and i name the call; index,   *)
(* none, num, fill, item, pad are its arguments and random draws; raised  *)
(* tells that it ended in IndexError, ret is is_valid's verdict, again    *)
(* that a fix_sum directly follows a fix_sum of the same instance, and    *)
(* pre holds the instance's digits before the call.                       *)
(* ---------------------------------------------------------------------- *)
NoLast ==
    [op |-> "none", i |-> 0, raised |-> FALSE, index |-> 0, none |-> FALSE,
     num |-> <<>>, fill |-> FALSE, item |-> <<>>, pad |-> <<>>, ret |-> FALSE,
     again |-> FALSE, pre |-> <<>>]

Called(op, i) == [NoLast EXCEPT !.op = op, !.i = i]

(* ---------------------------------------------------------------------- *)
(* Initial state: the class as defined, no instance yet                    *)
(* ---------------------------------------------------------------------- *)
InitNif ==
    /\ COMBINATIONS = RAW_COMBINATIONS
    /\ cls_nif = <<>>
    /\ alive = [i \in Inst |-> FALSE]
    /\ ref = [i \in Inst |-> "class"]
    /\ own = [i \in Inst |-> <<>>]
    /\ balanced = [i \in Inst |-> <<>>]
    /\ nops = 0
    /\ last = NoLast

Init == InitNif /\ base = <<>> /\ result = <<>>

(* self._nif's list object is mutated in place *)
WriteDigits(i, l) ==
    IF ref[i] = "class"
    THEN cls_nif' = l /\ UNCHANGED own
    ELSE own' = [own EXCEPT ![i] = l] /\ UNCHANGED cls_nif

(* ---------------------------------------------------------------------- *)
(* __init__(num, fill) for num None (none = TRUE) or a str of digits; the  *)
(* list and Nif branches, which store the caller's object, are not drawn.  *)
(* ---------------------------------------------------------------------- *)
FilledList(l0, pad) ==
    LET length == Len(l0)
        l1 == IF length < 8 THEN ListSetSlice(l0, <<length>>, <<>>, pad) ELSE l0
    IN IF length < 9
       THEN ListSetSlice(l1, <<8>>, <<>>, <<_eval_sum(ListTake(l1, BASE_LENGTH))>>)
       ELSE l1

InitList(num, fill, pad) ==
    LET l0 == DigitsOfStr(num) IN IF fill THEN FilledList(l0, pad) ELSE l0

(* number of digits the fill branch draws *)
FillCount(none, num, fill) ==
    IF none \/ num = <<>> \/ ~fill THEN 0 ELSE Max(0, BASE_LENGTH - Len(num))

__init__(i, none, num, fill, pad) ==
    /\ nops < MaxOps
    /\ ~alive[i]
    /\ pad \in [1..FillCount(none, num, fill) -> rand(RAND_PAD)]
    /\ alive' = [alive EXCEPT ![i] = TRUE]
    /\ IF none \/ num = <<>>
       THEN UNCHANGED <<ref, own>>
       ELSE /\ ref' = [ref EXCEPT ![i] = "own"]
            /\ own' = [own EXCEPT ![i] = InitList(num, fill, pad)]
    /\ nops' = nops + 1
    /\ last' = [Called("init", i) EXCEPT !.none = none, !.num = num,
                                         !.fill = fill, !.pad = pad]
    /\ UNCHANGED <<COMBINATIONS, cls_nif, balanced, base, result>>

(* ---------------------------------------------------------------------- *)
(* generate()                                                              *)
(* ---------------------------------------------------------------------- *)
(* variant of GeneratedList: the control digit is evaluated before the padding *)
GeneratedList_sum_first(cur, pad) ==
    LET l1 == ListSetSlice(cur, <<Len(cur)>>, <<>>, pad)
    IN ListSetSlice(l1, <<BASE_LENGTH>>, <<>>, <<_eval_sum(cur)>>)

(* the picked list after the two slice assignments of generate *)
GeneratedList(cur, pad) ==
    LET l1 == ListSetSlice(cur, <<Len(cur)>>, <<>>, pad)
    IN ListSetSlice(l1, <<BASE_LENGTH>>, <<>>, <<_eval_sum(l1)>>)

(* self._balanced as generate sees it *)
Balanced(i) == IF balanced[i] = <<>> THEN _fair_combinations(COMBINATIONS) ELSE balanced[i]

(* number of digits generate draws for pick k *)
PadCount(i, k) == Max(0, BASE_LENGTH - Len(Deref(COMBINATIONS, Balanced(i)[k + 1])))

GenerateEffect(i, k, pad) ==
    LET comb == Balanced(i)
        e == comb[k + 1]
        new == GeneratedList(Deref(COMBINATIONS, e), pad)
    IN /\ k \in rand(Len(comb))
       /\ pad \in [1..PadCount(i, k) -> rand(RAND_PAD)]
       /\ IF e.alias > 0
          THEN /\ COMBINATIONS' = [COMBINATIONS EXCEPT ![e.alias] = new]
               /\ balanced' = [balanced EXCEPT ![i] = comb]
          ELSE /\ balanced' = [balanced EXCEPT ![i] = [comb EXCEPT ![k + 1].val = new]]
               /\ UNCHANGED COMBINATIONS
       /\ ref' = [ref EXCEPT ![i] = "own"]
       /\ own' = [own EXCEPT ![i] = new]
       /\ UNCHANGED <<cls_nif, base, result>>

generate(i, k, pad) ==
    /\ nops < MaxOps
    /\ alive[i]
    /\ GenerateEffect(i, k, pad)
    /\ nops' = nops + 1
    /\ last' = [Called("generate", i) EXCEPT !.index = k, !.pad = pad, !.pre = Digits(i)]
    /\ UNCHANGED alive

(* Nif().generate() *)
generate_nif(i, k, pad) ==
    /\ nops < MaxOps
    /\ ~alive[i]
    /\ alive' = [alive EXCEPT ![i] = TRUE]
    /\ GenerateEffect(i, k, pad)
    /\ nops' = nops + 1
    /\ last' = [Called("generate_nif", i) EXCEPT !.index = k, !.pad = pad]

(* ---------------------------------------------------------------------- *)
(* is_valid()                                                              *)
(* ---------------------------------------------------------------------- *)
(* foldl(validator, Nif._COMBINATIONS, False) *)
RECURSIVE FoldValidator(_, _, _)
FoldValidator(x, C, s) ==
    IF C = <<>> THEN x
    ELSE FoldValidator(x \/ StartsWith(s, JoinStr(Head(C))), Tail(C), s)

get_sum_digit(l) == l[BASE_LENGTH + 1]

IsValidList(l, C) ==
    /\ Len(l) = BASE_LENGTH + 1
    /\ FoldValidator(FALSE, C, JoinStr(l))
    /\ get_sum_digit(l) = _eval_sum(ListTake(l, BASE_LENGTH))

is_valid_now(i) == IsValidList(Digits(i), COMBINATIONS)

is_valid(i) ==
    /\ nops < MaxOps
    /\ alive[i]
    /\ nops' = nops + 1
    /\ last' = [Called("is_valid", i) EXCEPT !.ret = is_valid_now(i), !.pre = Digits(i)]
    /\ UNCHANGED <<COMBINATIONS, cls_nif, alive, ref, own, balanced, base, result>>

(* ---------------------------------------------------------------------- *)
(* set_sum_digit(value), fix_sum()                                         *)
(* ---------------------------------------------------------------------- *)
set_sum_digit(i, value) ==
    /\ nops < MaxOps
    /\ alive[i]
    /\ WriteDigits(i, SumDigitSet(Digits(i), value))
    /\ nops' = nops + 1
    /\ last' = [Called("set_sum_digit", i) EXCEPT !.item = <<value>>, !.pre = Digits(i)]
    /\ UNCHANGED <<COMBINATIONS, alive, ref, balanced, base, result>>

fix_sum(i) ==
    /\ nops < MaxOps
    /\ alive[i]
    /\ WriteDigits(i, FixSumList(Digits(i)))
    /\ nops' = nops + 1
    /\ last' = [Called("fix_sum", i) EXCEPT !.pre = Digits(i),
                    !.again = (last.op = "fix_sum" /\ last.i = i)]
    /\ UNCHANGED <<COMBINATIONS, alive, ref, balanced, base, result>>

(* ---------------------------------------------------------------------- *)
(* __setitem__(index, item)                                                *)
(* ---------------------------------------------------------------------- *)
(* the slice branch accepts the start *)
SliceStartOk(start) == -BASE_LENGTH < start /\ start < BASE_LENGTH

(* index is slice(start, stop), item a list *)
setitem_slice(i, start, stop, item) ==
    /\ nops < MaxOps
    /\ alive[i]
    /\ IF SliceStartOk(start)
       THEN /\ WriteDigits(i, FixSumList(ListSetSlice(Digits(i), <<start>>, stop, item)))
            /\ last' = [Called("setitem_slice", i) EXCEPT !.index = start,
                            !.item = item, !.pre = Digits(i)]
       ELSE /\ UNCHANGED <<cls_nif, own>>
            /\ last' = [Called("setitem_slice", i) EXCEPT !.index = start,
                            !.item = item, !.pre = Digits(i), !.raised = TRUE]
    /\ nops' = nops + 1
    /\ UNCHANGED <<COMBINATIONS, alive, ref, balanced, base, result>>

(* index is an int, item a digit; the list raises IndexError by itself *)
setitem_int(i, index, item) ==
    /\ nops < MaxOps
    /\ alive[i]
    /\ IF ListIndexOk(Digits(i), index)
       THEN /\ WriteDigits(i, FixSumList(ListSetItem(Digits(i), index, item)))
            /\ last' = [Called("setitem_int", i) EXCEPT !.index = index,
                            !.item = <<item>>, !.pre = Digits(i)]
       ELSE /\ UNCHANGED <<cls_nif, own>>
            /\ last' = [Called("setitem_int", i) EXCEPT !.index = index,
                            !.item = <<item>>, !.pre = Digits(i), !.raised = TRUE]
    /\ nops' = nops + 1
    /\ UNCHANGED <<COMBINATIONS, alive, ref, balanced, base, result>>

(* ---------------------------------------------------------------------- *)
(* Specification of the class                                              *)
(* ---------------------------------------------------------------------- *)
Construct(i) ==
    /\ nops < MaxOps /\ ~alive[i]
    /\ \/ \E pad \in {<<>>} : __init__(i, TRUE, <<>>, FALSE, pad)
       \/ \E num \in StrArgs, fill \in BOOLEAN :
            \E pad \in Pads(FillCount(FALSE, num, fill), PadDigits, FALSE) :
               __init__(i, FALSE, num, fill, pad)

Generate(i) ==
    /\ nops < MaxOps /\ alive[i]
    /\ \E k \in PickSet(Balanced(i)) :
          \E pad \in Pads(PadCount(i, k), PadDigits, FALSE) : generate(i, k, pad)

GenerateNif(i) ==
    /\ nops < MaxOps /\ ~alive[i]
    /\ \E k \in PickSet(Balanced(i)) :
          \E pad \in Pads(PadCount(i, k), PadDigits, FALSE) : generate_nif(i, k, pad)

SetSlice(i) ==
    /\ nops < MaxOps /\ alive[i]
    /\ \E start \in StartInputs : \E stop \in StopInputs(start), item \in ItemsInputs :
          setitem_slice(i, start, stop, item)

SetInt(i) ==
    /\ nops < MaxOps /\ alive[i]
    /\ \E index \in IndexInputs, item \in ItemInputs : setitem_int(i, index, item)

SetSumDigit(i) == \E value \in SumDigitInputs : set_sum_digit(i, value)

Next ==
    \E i \in Inst :
       \/ Construct(i)
       \/ Generate(i)
       \/ GenerateNif(i)
       \/ is_valid(i)
       \/ SetSlice(i)
       \/ SetInt(i)
       \/ SetSumDigit(i)
       \/ fix_sum(i)

Spec == Init /\ [][Next]_vars

(* ---------------------------------------------------------------------- *)
(* Specification of the checksum function alone: _eval_sum applied to     *)
(* 8-digit bases with at most MaxNonZero non-zero digits                  *)
(* ---------------------------------------------------------------------- *)
Bases ==
    { [p \in 1..BASE_LENGTH |->
          IF \E k \in 1..MaxNonZero : f[k] = p
          THEN g[CHOOSE k \in 1..MaxNonZero : f[k] = p] ELSE 0] :
      f \in [1..MaxNonZero -> 1..BASE_LENGTH], g \in [1..MaxNonZero -> 0..9] }

InitChecksum == InitNif /\ base \in Bases /\ result = <<>>

EvalSumCall ==
    /\ Len(result) < MaxCalls
    /\ result' = Append(result, _eval_sum(base))
    /\ UNCHANGED <<COMBINATIONS, cls_nif, alive, ref, own, balanced, nops, last, base>>

NextChecksum == EvalSumCall

SpecChecksum == InitChecksum /\ [][NextChecksum]_vars

(* ---------------------------------------------------------------------- *)
(* Specification of the random padding: one instance, fill-mode            *)
(* construction and generate, padding sequences with one position free    *)
(* ---------------------------------------------------------------------- *)
ConstructPad(i) ==
    /\ nops < MaxPadOps /\ ~alive[i]
    /\ \E num \in StrArgs :
          \E pad \in Pads(FillCount(FALSE, num, TRUE), rand(RAND_PAD), TRUE) :
             __init__(i, FALSE, num, TRUE, pad)

GeneratePad(i) ==
    /\ nops < MaxPadOps /\ alive[i]
    /\ \E k \in PickSet(Balanced(i)) :
          \E pad \in Pads(PadCount(i, k), rand(RAND_PAD), TRUE) : generate(i, k, pad)

NextPad == ConstructPad(1) \/ GeneratePad(1)

SpecPad == Init /\ [][NextPad]_vars

(* ---------------------------------------------------------------------- *)
(* Reference definitions used by the properties                            *)
(* ---------------------------------------------------------------------- *)
RefChecksum(B) ==
    LET a == (9*B[1] + 8*B[2] + 7*B[3] + 6*B[4] + 5*B[5] + 4*B[6] + 3*B[7] + 2*B[8]) % 11
    IN IF a \in {0, 1} THEN 0 ELSE 11 - a

RawPrefixes == {RAW_COMBINATIONS[j] : j \in 1..Len(RAW_COMBINATIONS)}

RefValid(l) ==
    /\ Len(l) = 9
    /\ \E c \in RawPrefixes : SubSeq(l, 1, Len(c)) = c
    /\ l[9] = RefChecksum(SubSeq(l, 1, 8))

(* 10 copies of each 1-digit prefix, one copy of each 2-digit prefix, in order *)
RECURSIVE RefExpansion(_)
RefExpansion(C) ==
    IF C = <<>> THEN <<>>
    ELSE (IF Len(Head(C)) = 1 THEN [n \in 1..10 |-> Head(C)] ELSE <<Head(C)>>)
            \o RefExpansion(Tail(C))

BalancedContents(i) ==
    [k \in 1..Len(balanced[i]) |-> Deref(COMBINATIONS, balanced[i][k])]

Generated == last.op \in {"generate", "generate_nif"}
Assigned == last.op \in {"setitem_slice", "setitem_int"}
Mutations == {"generate", "generate_nif", "setitem_slice", "setitem_int",
              "fix_sum", "set_sum_digit"}

(* ---------------------------------------------------------------------- *)
(* Properties                                                              *)
(* ---------------------------------------------------------------------- *)

(* C1: whatever operations came before, the NIF an instance holds right    *)
(* after generate() passes is_valid().                                     *)
C1_GenerateIsValid == Generated => is_valid_now(last.i)

(* C1 witness: generate() ran as the third operation and returned the list *)
(* that it wrote into a catalogue entry.                                   *)
C1_Witness ==
    /\ last.op = "generate" /\ nops >= 3
    /\ \E j \in 1..Len(COMBINATIONS) : COMBINATIONS[j] = Digits(last.i)
    /\ COMBINATIONS # RAW_COMBINATIONS

(* C2: every value _eval_sum returns for an 8-digit base is the reference  *)
(* check digit of that base, a digit 0..9, the same at every call.         *)
C2_EvalSumIsReference ==
    \A n \in 1..Len(result) : result[n] = RefChecksum(base) /\ result[n] \in 0..9

(* C2 witness: two calls returned for a base whose weighted sum is 1 mod 11 *)
C2_Witness ==
    /\ Len(result) = 2
    /\ (9*base[1] + 8*base[2] + 7*base[3] + 6*base[4]
          + 5*base[5] + 4*base[6] + 3*base[7] + 2*base[8]) % 11 = 1

(* C3: in every reachable state is_valid() of an instance is true exactly  *)
(* when its digits are 9, start with one of the 13 raw prefixes and end    *)
(* with the check digit of the first 8.                                    *)
C3_ValidIffThreeRules ==
    \A i \in Inst : alive[i] => (is_valid_now(i) <=> RefValid(Digits(i)))

(* C4: the catalogue is always the 13 raw prefixes and every fairness list *)
(* is 10 copies of each 1-digit prefix plus each 2-digit prefix once.      *)
C4_CatalogueReadOnly ==
    /\ COMBINATIONS = RAW_COMBINATIONS
    /\ \A i \in Inst :
          balanced[i] # <<>> => BalancedContents(i) = RefExpansion(RAW_COMBINATIONS)

(* C5: on a 9-digit NIF an assignment raises IndexError exactly when its   *)
(* index or range start is outside -8..7, and then changes no digit.       *)
C5_RangeErrorOutsideBase ==
    (Assigned /\ Len(last.pre) = 9) =>
        /\ last.raised <=> ~(-8 <= last.index /\ last.index < 8)
        /\ last.raised => Digits(last.i) = last.pre

(* C6: after a successful assignment into the base of a 9-digit NIF there  *)
(* is a digit at position 8 and it is the check digit of positions 0..7.   *)
C6_AssignKeepsChecksum ==
    (/\ Assigned /\ ~last.raised /\ Len(last.pre) = 9
     /\ last.op = "setitem_int" => last.index \in 0..7) =>
        /\ Len(Digits(last.i)) >= 9
        /\ Digits(last.i)[9] = RefChecksum(SubSeq(Digits(last.i), 1, 8))

(* C7: a fix_sum() that directly follows a fix_sum() of the same instance  *)
(* leaves the digit sequence as it found it.                               *)
C7_FixSumIdempotent ==
    (last.op = "fix_sum" /\ last.again) => Digits(last.i) = last.pre

(* C8: fill-mode construction from a string of k < 9 digits gives 9 digits *)
(* that start with the input and end with the check digit of the first 8;  *)
(* a 9-digit input is stored unchanged.                                    *)
C8_FillCompletes ==
    (last.op = "init" /\ ~last.none /\ last.fill /\ Len(last.num) <= 9) =>
        LET l == Digits(last.i)
            k == Len(last.num)
        IN /\ Len(l) = 9
           /\ \A p \in 1..k : DigitChar[l[p] + 1] = last.num[p]
           /\ l[9] = RefChecksum(SubSeq(l, 1, 8))
           /\ k = 9 => l = [p \in 1..9 |-> IntOfChar(last.num[p])]

(* padding sequences of length n, digits 0..9, with digit d at position p *)
PadsWith(n, p, d) == {[q \in 1..n |-> IF q = p THEN d ELSE e] : e \in 0..9}

(* C9: every padded position can receive every digit 0..9, in generate()   *)
(* and in fill-mode construction, and never receives anything else.        *)
C9_PadCoversAllDigits ==
    /\ \A p \in 1..Len(last.pad) : last.pad[p] \in 0..9
    /\ (alive[1] /\ nops < MaxPadOps) =>
          \A k \in PickSet(Balanced(1)) : \A p \in 1..PadCount(1, k), d \in 0..9 :
             ENABLED (\E pad \in PadsWith(PadCount(1, k), p, d) : generate(1, k, pad))
    /\ (~alive[1] /\ nops < MaxPadOps) =>
          \A num \in StrArgs :
             \A p \in 1..FillCount(FALSE, num, TRUE), d \in 0..9 :
                ENABLED (\E pad \in PadsWith(FillCount(FALSE, num, TRUE), p, d) :
                            __init__(1, FALSE, num, TRUE, pad))

(* C10: a mutation of one instance changes the digits of no other instance *)
C10_InstancesIsolated ==
    [][\A j \in Inst :
          (alive[j] /\ last'.op \in Mutations /\ last'.i # j) => Digits(j)' = Digits(j)]_vars

====
